---------------------------- MODULE Spec2Model ----------------------------
(***************************************************************************)
(* A model of the sht30-python driver stack:                               *)
(*   src/sc18im700/sc18im700.py  - SC18IM700 serial-to-I2C bridge driver   *)
(*   src/sht30/sht30.py          - SHT30 temperature/humidity driver       *)
(*                                                                         *)
(* Every driver method is an operator that takes the transport context t   *)
(* and returns [exc, val, t]: the exception it ends with ("none" when it   *)
(* returns), the value it returns and the transport context afterwards.    *)
(* The context carries the bridge's registers, the bytes the bridge has    *)
(* queued for the host, the log of everything the call did to the serial   *)
(* port (writes, reads, sleeps) and the two things the environment decides *)
(* for the call: the bytes the I2C slave delivers (t.i2c) and how many     *)
(* response bytes reach the host before the 0.5 s read timeout (t.n).      *)
(* Bytes are integers 0..255 and byte strings are sequences of them.       *)
(***************************************************************************)
EXTENDS Integers, Sequences, FiniteSets, TLC

VARIABLES
    reg,    \* the bridge's internal registers, register address -> byte
    pre,    \* the registers before the last driver call
    last,   \* the last driver call: [op, args, i2c, n, exc, val, log]; in
            \* sequences of calls also what it found: stale, the input
            \* buffer, and baud, the rate of the local port
    calls,  \* the number of bridge driver calls made so far
    serial_baudrate,  \* self.serial.baudrate, the rate of the local port
    inbuf,  \* the serial input buffer: bytes received and not yet read
    prev    \* the driver call made before the last, as last held it

vars == <<reg, pre, last, calls, serial_baudrate, inbuf, prev>>

---------------------------------------------------------------------------
(* Python integer operators on non-negative integers.                      *)

RECURSIVE BitAnd(_, _)
BitAnd(a, b) ==
    IF a = 0 \/ b = 0 THEN 0
    ELSE (a % 2) * (b % 2) + 2 * BitAnd(a \div 2, b \div 2)

RECURSIVE BitOr(_, _)
BitOr(a, b) ==
    IF a = 0 THEN b
    ELSE IF b = 0 THEN a
    ELSE (IF a % 2 = 1 \/ b % 2 = 1 THEN 1 ELSE 0) + 2 * BitOr(a \div 2, b \div 2)

RECURSIVE BitXor(_, _)
BitXor(a, b) ==
    IF a = 0 THEN b
    ELSE IF b = 0 THEN a
    ELSE ((a + b) % 2) + 2 * BitXor(a \div 2, b \div 2)

\* a & ~m for a, m >= 0: the bits of a that are not bits of m
BitAndNot(a, m) == a - BitAnd(a, m)

Shl(a, k) == a * 2^k

Shr(a, k) == a \div 2^k

Min(a, b) == IF a <= b THEN a ELSE b

\* int.from_bytes(s, byteorder='little')
RECURSIVE FromBytesLittle(_)
FromBytesLittle(s) ==
    IF s = <<>> THEN 0 ELSE Head(s) + 256 * FromBytesLittle(Tail(s))

\* int.from_bytes(s, byteorder='big')
RECURSIVE FromBytesBig(_)
FromBytesBig(s) ==
    IF s = <<>> THEN 0
    ELSE s[Len(s)] + 256 * FromBytesBig(SubSeq(s, 1, Len(s) - 1))

\* v.to_bytes(k, byteorder='little'), for 0 <= v < 256^k
ToBytesLittle(v, k) == [i \in 1..k |-> (v \div 256^(i - 1)) % 256]

---------------------------------------------------------------------------
(* sc18im700.py: constants                                                 *)

S_CHAR == 83
P_CHAR == 80
R_CHAR == 82
W_CHAR == 87
I_CHAR == 73
O_CHAR == 79

BRG0 == 0
BRG1 == 1
PORTCONF1 == 2
PORTCONF2 == 3
IOSTATE == 4
RESERVED == 5
I2CADR == 6
I2CCLKL == 7
I2CCLKH == 8
I2CTO == 9
I2CSTAT == 10

Registers == BRG0..I2CSTAT

---------------------------------------------------------------------------
(* Call results and the transport context.                                 *)

NewT(r, i2c, n) == [reg |-> r, rx |-> <<>>, log |-> <<>>, i2c |-> i2c, n |-> n]

Return(t, v) == [exc |-> "none", val |-> v, t |-> t]

Raise(t, e) == [exc |-> e, val |-> <<>>, t |-> t]

\* time.sleep(ms / 1000)
Sleep(t, ms) == [t EXCEPT !.log = Append(@, [ev |-> "sleep", ms |-> ms])]

(***************************************************************************)
(* The bridge chip, as the driver's frames address it: what one complete   *)
(* frame does to the registers and which bytes the chip sends back.        *)
(*   S <addr|1> <n> P    I2C read: the slave's n bytes are sent back       *)
(*   S <addr&FE> <n> .. P  I2C write: nothing is sent back                 *)
(*   R <reg>.. P         one value per register, in request order          *)
(*   W <reg,val>.. P     registers written in order                        *)
(*   I P                 the I/O state byte                                *)
(*   O <byte> P          the I/O state byte written                        *)
(***************************************************************************)
RECURSIVE WriteRegs(_, _)
WriteRegs(r, pairs) ==
    IF Len(pairs) < 2 THEN r
    ELSE WriteRegs(IF pairs[1] \in DOMAIN r
                      THEN [r EXCEPT ![pairs[1]] = pairs[2]]
                      ELSE r,
                   SubSeq(pairs, 3, Len(pairs)))

BridgeExec(r, frame, i2c) ==
    LET body == SubSeq(frame, 2, Len(frame) - 1)
    IN  CASE frame[1] = S_CHAR ->
                [reg |-> r,
                 resp |-> IF body[1] % 2 = 1
                          THEN SubSeq(i2c, 1, Min(body[2], Len(i2c)))
                          ELSE <<>>]
          [] frame[1] = R_CHAR ->
                [reg |-> r,
                 resp |-> [i \in 1..Len(body) |->
                              IF body[i] \in DOMAIN r THEN r[body[i]] ELSE 0]]
          [] frame[1] = W_CHAR ->
                [reg |-> WriteRegs(r, body), resp |-> <<>>]
          [] frame[1] = I_CHAR ->
                [reg |-> r, resp |-> <<r[IOSTATE]>>]
          [] frame[1] = O_CHAR ->
                [reg |-> [r EXCEPT ![IOSTATE] = body[1]], resp |-> <<>>]
          [] OTHER -> [reg |-> r, resp |-> <<>>]

---------------------------------------------------------------------------
(* sc18im700.py: class SC18IM700                                           *)

\* SC18IM700.write: the frame goes out, the bridge acts on it and queues
\* its response for the host.
write(t, data) ==
    LET b == BridgeExec(t.reg, data, t.i2c)
    IN  Return([t EXCEPT !.reg = b.reg,
                         !.rx = t.rx \o b.resp,
                         !.log = Append(@, [ev |-> "write", data |-> data])],
               <<>>)

\* read without the length check: whatever arrived is returned
read_unchecked(t, size) ==
    LET k == Min(size, Min(t.n, Len(t.rx)))
        data == SubSeq(t.rx, 1, k)
    IN  Return([t EXCEPT !.rx = SubSeq(t.rx, k + 1, Len(t.rx)),
                         !.log = Append(@, [ev |-> "read", size |-> size,
                                            data |-> data])],
               data)

\* read that tries once more when the first serial.read comes back short
read_retry(t, size) ==
    LET first == read_unchecked(t, size)
    IN  IF Len(first.val) >= size THEN first
        ELSE LET second == read_unchecked(first.t, size)
             IN  IF Len(second.val) < size THEN Raise(second.t, "RuntimeError")
                 ELSE second

\* SC18IM700.read: serial.read(size) yields the bytes that arrived before
\* the timeout, at most size of them; fewer than size is a RuntimeError.
read(t, size) ==
    LET k == Min(size, Min(t.n, Len(t.rx)))
        data == SubSeq(t.rx, 1, k)
        t1 == [t EXCEPT !.rx = SubSeq(t.rx, k + 1, Len(t.rx)),
                        !.log = Append(@, [ev |-> "read", size |-> size,
                                           data |-> data])]
    IN  IF Len(data) < size THEN Raise(t1, "RuntimeError")
        ELSE Return(t1, data)

\* i2c_read_addr with the upper limit of the range check mistyped as 0xFF
i2c_read_addr_wide(i2c_addr) ==
    IF i2c_addr < 0 \/ 255 < i2c_addr
    THEN [exc |-> "ValueError", val |-> <<>>]
    ELSE [exc |-> "none", val |-> BitOr(Shl(i2c_addr, 1), 1)]

i2c_read_addr(i2c_addr) ==
    IF i2c_addr < 0 \/ 127 < i2c_addr
    THEN [exc |-> "ValueError", val |-> <<>>]
    ELSE [exc |-> "none", val |-> BitOr(Shl(i2c_addr, 1), 1)]

i2c_write_addr(i2c_addr) ==
    IF i2c_addr < 0 \/ 127 < i2c_addr
    THEN [exc |-> "ValueError", val |-> <<>>]
    ELSE [exc |-> "none", val |-> BitAnd(Shl(i2c_addr, 1), 254)]

read_i2c(t, i2c_addr, size) ==
    LET a == i2c_read_addr(i2c_addr)
    IN  IF a.exc # "none" THEN Raise(t, a.exc)
        ELSE IF size < 0 \/ 255 < size THEN Raise(t, "ValueError")
        ELSE LET tx_data == <<S_CHAR>> \o <<a.val, size>> \o <<P_CHAR>>
                 w == write(t, tx_data)
             IN  read(Sleep(w.t, 10), size)

\* write_i2c whose length byte counts the terminator as well
write_i2c_len_off(t, i2c_addr, data) ==
    LET a == i2c_write_addr(i2c_addr)
        size == Len(data)
    IN  IF a.exc # "none" THEN Raise(t, a.exc)
        ELSE IF size < 0 \/ 255 < size THEN Raise(t, "ValueError")
        ELSE write(t, <<S_CHAR>> \o <<a.val, size + 1>> \o data \o <<P_CHAR>>)

write_i2c(t, i2c_addr, data) ==
    LET a == i2c_write_addr(i2c_addr)
        size == Len(data)
    IN  IF a.exc # "none" THEN Raise(t, a.exc)
        ELSE IF size < 0 \/ 255 < size THEN Raise(t, "ValueError")
        ELSE write(t, <<S_CHAR>> \o <<a.val, size>> \o data \o <<P_CHAR>>)

read_reg(t, reg_addr) ==
    LET size == Len(reg_addr)
    IN  IF size < 0 \/ 255 < size THEN Raise(t, "ValueError")
        ELSE LET w == write(t, <<R_CHAR>> \o reg_addr \o <<P_CHAR>>)
             IN  read(Sleep(w.t, 10), size)

\* zip(reg_addr, data) pairs the two up to the shorter one
RECURSIVE Zip(_, _)
Zip(a, b) ==
    IF a = <<>> \/ b = <<>> THEN <<>>
    ELSE <<Head(a), Head(b)>> \o Zip(Tail(a), Tail(b))

write_reg(t, reg_addr, data) ==
    write(t, <<W_CHAR>> \o Zip(reg_addr, data) \o <<P_CHAR>>)

read_gpio(t) ==
    LET w == write(t, <<I_CHAR>> \o <<P_CHAR>>)
    IN  read(Sleep(w.t, 10), 1)

write_gpio(t, data) ==
    IF Len(data) # 1 THEN Raise(t, "ValueError")
    ELSE write(t, <<O_CHAR>> \o data \o <<P_CHAR>>)

get_port_conf(t, port) ==
    IF port < 0 \/ 7 < port THEN Raise(t, "ValueError")
    ELSE LET r == read_reg(t, <<PORTCONF1, PORTCONF2>>)
         IN  IF r.exc # "none" THEN r
             ELSE LET port_conf == FromBytesLittle(r.val)
                      shift == port * 2
                      mask == Shl(3, shift)
                  IN  Return(r.t, Shr(BitAnd(port_conf, mask), shift))

\* set_port_conf with the check of value made only after the register read
set_port_conf_late_check(t, port, value) ==
    IF port < 0 \/ 7 < port THEN Raise(t, "ValueError")
    ELSE LET reg_addr == <<PORTCONF1, PORTCONF2>>
             r == read_reg(t, reg_addr)
         IN  IF r.exc # "none" THEN r
             ELSE IF value < 0 \/ 3 < value THEN Raise(r.t, "ValueError")
             ELSE LET port_conf == FromBytesLittle(r.val)
                      shift == port * 2
                      mask == Shl(3, shift)
                      new_conf == BitOr(BitAndNot(port_conf, mask),
                                        Shl(value, shift))
                      wdata == ToBytesLittle(new_conf, Len(reg_addr))
                  IN  write_reg(r.t, reg_addr, wdata)

\* set_port_conf that ORs the new value in without clearing the field
set_port_conf_no_clear(t, port, value) ==
    IF port < 0 \/ 7 < port THEN Raise(t, "ValueError")
    ELSE IF value < 0 \/ 3 < value THEN Raise(t, "ValueError")
    ELSE LET reg_addr == <<PORTCONF1, PORTCONF2>>
             r == read_reg(t, reg_addr)
         IN  IF r.exc # "none" THEN r
             ELSE LET port_conf == FromBytesLittle(r.val)
                      shift == port * 2
                      new_conf == BitOr(port_conf, Shl(value, shift))
                      wdata == ToBytesLittle(new_conf, Len(reg_addr))
                  IN  write_reg(r.t, reg_addr, wdata)

set_port_conf(t, port, value) ==
    IF port < 0 \/ 7 < port THEN Raise(t, "ValueError")
    ELSE IF value < 0 \/ 3 < value THEN Raise(t, "ValueError")
    ELSE LET reg_addr == <<PORTCONF1, PORTCONF2>>
             r == read_reg(t, reg_addr)
         IN  IF r.exc # "none" THEN r
             ELSE LET port_conf == FromBytesLittle(r.val)
                      shift == port * 2
                      mask == Shl(3, shift)
                      new_conf == BitOr(BitAndNot(port_conf, mask),
                                        Shl(value, shift))
                      wdata == ToBytesLittle(new_conf, Len(reg_addr))
                  IN  write_reg(r.t, reg_addr, wdata)

port_in(t, port) ==
    IF port < 0 \/ 7 < port THEN Raise(t, "ValueError")
    ELSE LET r == read_gpio(t)
         IN  IF r.exc # "none" THEN r
             ELSE LET io_state == FromBytesLittle(r.val)
                      shift == port * 1
                      mask == Shl(1, shift)
                  IN  Return(r.t, Shr(BitAnd(io_state, mask), shift) # 0)

port_out(t, port, value) ==
    IF port < 0 \/ 7 < port THEN Raise(t, "ValueError")
    ELSE LET r == read_gpio(t)
         IN  IF r.exc # "none" THEN r
             ELSE LET io_state == FromBytesLittle(r.val)
                      shift == port * 1
                      mask == Shl(1, shift)
                      new_state == BitOr(BitAndNot(io_state, mask),
                                         Shl(IF value THEN 1 ELSE 0, shift))
                  IN  write_gpio(r.t, ToBytesLittle(new_state, 1))

\* get_i2c_master_addr without the shift: the register byte masked to 7 bits
get_i2c_master_addr_no_shift(t) ==
    LET r == read_reg(t, <<I2CADR>>)
    IN  IF r.exc # "none" THEN r
        ELSE Return(r.t, BitAnd(FromBytesLittle(r.val), 127))

get_i2c_master_addr(t) ==
    LET r == read_reg(t, <<I2CADR>>)
    IN  IF r.exc # "none" THEN r
        ELSE Return(r.t, BitAnd(Shr(FromBytesLittle(r.val), 1), 127))

set_i2c_master_addr(t, value) ==
    IF value < 0 \/ 127 < value THEN Raise(t, "ValueError")
    ELSE write_reg(t, <<I2CADR>>, ToBytesLittle(BitAnd(Shl(value, 1), 254), 1))

get_i2c_status(t) ==
    LET r == read_reg(t, <<I2CSTAT>>)
    IN  IF r.exc # "none" THEN r
        ELSE Return(r.t, FromBytesLittle(r.val))

\* self.serial.baudrate = value
SetSerialBaudrate(t, value) ==
    [t EXCEPT !.log = Append(@, [ev |-> "baudrate", value |-> value])]

Abs(a) == IF a < 0 THEN 0 - a ELSE a

\* int(a / b) for integers a and b # 0: the quotient truncated towards zero.
\* The float quotients of the driver are never so close to an integer that
\* their rounding changes the truncated value.
IntOfQuotient(a, b) ==
    LET q == Abs(a) \div Abs(b)
    IN  IF (a < 0) = (b < 0) THEN q ELSE 0 - q

\* the property SC18IM700.baudrate
baudrate(t) ==
    LET r == read_reg(t, <<BRG0, BRG1>>)
    IN  IF r.exc # "none" THEN r
        ELSE LET brg == FromBytesLittle(r.val)
             IN  Return(r.t, IntOfQuotient(7372800, 16 + brg))

\* change_baudrate that sets the rate of the local port first
change_baudrate_early(t, value) ==
    IF value = 0 THEN Raise(t, "ZeroDivisionError")
    ELSE LET reg_addr == <<BRG0, BRG1>>
             brg == IntOfQuotient(7372800 - 16 * value, value)
         IN  IF brg < 0 \/ 65535 < brg THEN Raise(t, "OverflowError")
             ELSE LET w == write_reg(SetSerialBaudrate(t, value), reg_addr,
                                     ToBytesLittle(brg, Len(reg_addr)))
                  IN  IF w.exc # "none" THEN w
                      ELSE Return(Sleep(w.t, 1000), <<>>)

\* SC18IM700.change_baudrate: 7.3728e6 / 0 raises ZeroDivisionError and
\* brg.to_bytes(2) raises OverflowError outside 0..65535
change_baudrate(t, value) ==
    IF value = 0 THEN Raise(t, "ZeroDivisionError")
    ELSE LET reg_addr == <<BRG0, BRG1>>
             brg == IntOfQuotient(7372800 - 16 * value, value)
         IN  IF brg < 0 \/ 65535 < brg THEN Raise(t, "OverflowError")
             ELSE LET w == write_reg(t, reg_addr,
                                     ToBytesLittle(brg, Len(reg_addr)))
                  IN  IF w.exc # "none" THEN w
                      ELSE Return(SetSerialBaudrate(Sleep(w.t, 1000), value), <<>>)

---------------------------------------------------------------------------
(* sht30.py: constants                                                     *)

SHT30_I2C_ADDR == 68

SOFT_RESET == <<48, 162>>
HEATER_ENABLE == <<48, 109>>
HEATER_DISABLE == <<48, 102>>
READ_STATUS == <<243, 45>>
CLEAR_STATUS == <<48, 65>>
SINGLESHOT_MEASURE == <<44, 6>>
PERIODIC_MEASURE == <<33, 48>>
READ_MEASURED_VALUE == <<14, 0>>
STOP_MEASURE == <<48, 147>>

POLYNOMIAL == 49

---------------------------------------------------------------------------
(* sht30.py: class SHT30                                                   *)

\* the inner loop of crc8: k more shifts of the (unbounded) integer crc
RECURSIVE crc8_bits(_, _)
crc8_bits(crc, k) ==
    IF k = 0 THEN crc
    ELSE crc8_bits(IF BitAnd(crc, 128) # 0
                   THEN BitXor(Shl(crc, 1), POLYNOMIAL)
                   ELSE Shl(crc, 1),
                   k - 1)

\* the outer loop of crc8: the remaining bytes of data
RECURSIVE crc8_bytes(_, _)
crc8_bytes(crc, data) ==
    IF data = <<>> THEN crc
    ELSE crc8_bytes(crc8_bits(BitXor(crc, Head(data)), 8), Tail(data))

\* crc8 with the digits of the polynomial swapped: 0x13 for 0x31
RECURSIVE crc8_bits_0x13(_, _)
crc8_bits_0x13(crc, k) ==
    IF k = 0 THEN crc
    ELSE crc8_bits_0x13(IF BitAnd(crc, 128) # 0
                        THEN BitXor(Shl(crc, 1), 19)
                        ELSE Shl(crc, 1),
                        k - 1)

RECURSIVE crc8_bytes_0x13(_, _)
crc8_bytes_0x13(crc, data) ==
    IF data = <<>> THEN crc
    ELSE crc8_bytes_0x13(crc8_bits_0x13(BitXor(crc, Head(data)), 8), Tail(data))

crc8_0x13(data) == BitAnd(crc8_bytes_0x13(255, data), 255)

\* crc8 without the final mask to 8 bits
crc8_unmasked(data) == crc8_bytes(255, data)

crc8(data) == BitAnd(crc8_bytes(255, data), 255)

\* the command methods: one two-byte I2C write, then a sleep
command(t, wdata, ms) ==
    LET w == write_i2c(t, SHT30_I2C_ADDR, wdata)
    IN  IF w.exc # "none" THEN w ELSE Return(Sleep(w.t, ms), <<>>)

soft_reset(t) == command(t, SOFT_RESET, 1000)

heater_enable(t) == command(t, HEATER_ENABLE, 10)

heater_disable(t) == command(t, HEATER_DISABLE, 10)

clear_status(t) == command(t, CLEAR_STATUS, 10)

read_status(t) ==
    LET w == command(t, READ_STATUS, 10)
    IN  IF w.exc # "none" THEN w
        ELSE LET r == read_i2c(w.t, SHT30_I2C_ADDR, 3)
             IN  IF r.exc # "none" THEN r
                 ELSE IF crc8(SubSeq(r.val, 1, 2)) # r.val[3]
                      THEN Raise(r.t, "RuntimeError")
                      ELSE Return(r.t, FromBytesBig(SubSeq(r.val, 1, 2)))

\* the flag properties: bool(self.read_status() & mask)
status_flag(t, mask) ==
    LET s == read_status(t)
    IN  IF s.exc # "none" THEN s ELSE Return(s.t, BitAnd(s.val, mask) # 0)

is_alerting(t) == status_flag(t, 32768)

heater_enabled(t) == status_flag(t, 8192)

is_humi_alerting(t) == status_flag(t, 2048)

is_temp_alerting(t) == status_flag(t, 1024)

\* is_reset_detected with the mask of the neighbouring bit, 0x0008
is_reset_detected_0x0008(t) == status_flag(t, 8)

is_reset_detected(t) == status_flag(t, 16)

is_command_failed(t) == status_flag(t, 2)

is_write_crc_error(t) == status_flag(t, 1)

\* singleshot_measure that fails only when both checksums mismatch
singleshot_measure_and(t) ==
    LET w == command(t, SINGLESHOT_MEASURE, 30)
    IN  IF w.exc # "none" THEN w
        ELSE LET r == read_i2c(w.t, SHT30_I2C_ADDR, 6)
             IN  IF r.exc # "none" THEN r
                 ELSE LET rdata == r.val
                          crc_temp == crc8(SubSeq(rdata, 1, 2))
                          crc_humi == crc8(SubSeq(rdata, 4, 5))
                      IN  IF crc_temp # rdata[3] /\ crc_humi # rdata[6]
                          THEN Raise(r.t, "RuntimeError")
                          ELSE Return(r.t,
                                      <<FromBytesBig(SubSeq(rdata, 1, 2)),
                                        FromBytesBig(SubSeq(rdata, 4, 5))>>)

singleshot_measure(t) ==
    LET w == command(t, SINGLESHOT_MEASURE, 30)
    IN  IF w.exc # "none" THEN w
        ELSE LET r == read_i2c(w.t, SHT30_I2C_ADDR, 6)
             IN  IF r.exc # "none" THEN r
                 ELSE LET rdata == r.val
                          crc_temp == crc8(SubSeq(rdata, 1, 2))
                          crc_humi == crc8(SubSeq(rdata, 4, 5))
                      IN  IF crc_temp # rdata[3] \/ crc_humi # rdata[6]
                          THEN Raise(r.t, "RuntimeError")
                          ELSE Return(r.t,
                                      <<FromBytesBig(SubSeq(rdata, 1, 2)),
                                        FromBytesBig(SubSeq(rdata, 4, 5))>>)

\* begin with heater_disable and clear_status in each other's place
begin_swapped(t) ==
    LET s == soft_reset(t)
    IN  IF s.exc # "none" THEN s
        ELSE LET c == clear_status(s.t)
             IN  IF c.exc # "none" THEN c
                 ELSE LET h == heater_disable(c.t)
                      IN  IF h.exc # "none" THEN h
                          ELSE LET a == is_alerting(h.t)
                               IN  IF a.exc # "none" THEN a
                                   ELSE IF a.val THEN Raise(a.t, "RuntimeError")
                                   ELSE Return(a.t, <<>>)

begin(t) ==
    LET s == soft_reset(t)
    IN  IF s.exc # "none" THEN s
        ELSE LET h == heater_disable(s.t)
             IN  IF h.exc # "none" THEN h
                 ELSE LET c == clear_status(h.t)
                      IN  IF c.exc # "none" THEN c
                          ELSE LET a == is_alerting(c.t)
                               IN  IF a.exc # "none" THEN a
                                   ELSE IF a.val THEN Raise(a.t, "RuntimeError")
                                   ELSE Return(a.t, <<>>)

(***************************************************************************)
(* The unit conversions return Python floats. A float is modelled by the  *)
(* exact rational [num, den] of the expression; the double the code        *)
(* computes differs from it by a relative error below 2^-50, and is equal  *)
(* to it where raw / 65535 is 0 or 1.                                      *)
(***************************************************************************)
FloatDiv(a, b) == [num |-> a, den |-> b]

FloatMul(k, x) == [num |-> k * x.num, den |-> x.den]

FloatAdd(k, x) == [num |-> k * x.den + x.num, den |-> x.den]

\* the conversions dividing by 2^16 instead of 2^16 - 1
temperature_C_pow2(raw_temp) == FloatAdd(-45, FloatMul(175, FloatDiv(raw_temp, 2^16)))

relative_humidity_pow2(raw_humi) == FloatMul(100, FloatDiv(raw_humi, 2^16))

temperature_C(raw_temp) == FloatAdd(-45, FloatMul(175, FloatDiv(raw_temp, 2^16 - 1)))

temperature_F(raw_temp) == FloatAdd(-49, FloatMul(315, FloatDiv(raw_temp, 2^16 - 1)))

relative_humidity(raw_humi) == FloatMul(100, FloatDiv(raw_humi, 2^16 - 1))

---------------------------------------------------------------------------
(* examples/simple_usage.py: one round of main's loop                      *)

measure_and_convert(t) ==
    LET m == singleshot_measure(t)
    IN  IF m.exc # "none" THEN m
        ELSE Return(m.t, [temp |-> m.val[1],
                          humi |-> m.val[2],
                          tc |-> temperature_C(m.val[1]),
                          tf |-> temperature_F(m.val[1]),
                          rh |-> relative_humidity(m.val[2])])

---------------------------------------------------------------------------
(* Bounds and the inputs the calls are made with.                          *)

\* driver calls per behaviour of Spec
MaxOps == 1

\* how far beyond 0..0x7F the I2C addresses of SpecAddr go
AddrMargin == 64

\* register file with the given port configuration, I/O state and own
\* I2C address; BRG holds the divisor of 9600 baud
RegFile(pc, io, adr) ==
    [a \in Registers |->
        CASE a = BRG0 -> 240
          [] a = BRG1 -> 2
          [] a = PORTCONF1 -> pc % 256
          [] a = PORTCONF2 -> pc \div 256
          [] a = IOSTATE -> io
          [] a = I2CADR -> adr
          [] OTHER -> 0]

\* port configurations: every port with every value 0..3, and a mixed one
PortConfSamples == {0, 21845, 43690, 65535, 42435}

ByteSamples == {0, 255, 165}

RegSamples ==
    {RegFile(pc, 165, 38) : pc \in PortConfSamples}
    \cup {RegFile(42435, io, 38) : io \in ByteSamples}

AddrInputs == {-1, 0, SHT30_I2C_ADDR, 127, 128}

SizeInputs == {-1, 0, 1, 3, 6, 255, 256}

\* how many response bytes arrive in time, for size requested
ArrivalInputs(size) == {k \in {0, size - 1, size} : k >= 0} \cup {0}

\* what the I2C slave delivers to a read of size bytes
SlaveData(size) == [i \in 1..size |-> (37 * i) % 256]

DataInputs == {[i \in 1..k |-> 170] : k \in {0, 1, 2, 255, 256}}

RegAddrInputs ==
    {<<>>, <<BRG0, BRG1>>, <<PORTCONF1, PORTCONF2>>, <<IOSTATE>>, <<I2CADR>>,
     <<I2CSTAT>>, <<PORTCONF2, IOSTATE, PORTCONF1>>}
    \cup {[i \in 1..k |-> IOSTATE] : k \in {255, 256}}

GpioInputs == {<<>>} \cup {<<b>> : b \in ByteSamples} \cup {<<b, b>> : b \in ByteSamples}

PortInputs == -1..8

ValueInputs == -1..4

\* status words: every single bit, every word with one bit clear, 0x8010
StatusInputs ==
    {0, 65535, 32784} \cup {2^k : k \in 0..15} \cup {65535 - 2^k : k \in 0..15}

\* measured words, among them 0x6C53 and 0x4C66
WordInputs == {0, 65535, 27731, 19558, 48879}

\* the checksum byte on the wire: the right one, or a corrupted one
CrcInputs(word) ==
    LET c == crc8(<<word \div 256, word % 256>>)
    IN  {c, (c + 1) % 256, BitXor(c, 128)}

\* the three bytes the sensor answers a status read with
StatusData ==
    UNION {{<<w \div 256, w % 256, c>> : c \in CrcInputs(w)} : w \in StatusInputs}

\* the six bytes the sensor answers a measurement read with
MeasureData ==
    UNION {{<<wt \div 256, wt % 256, ct, wh \div 256, wh % 256, ch>> :
               ct \in CrcInputs(wt), ch \in CrcInputs(wh)} :
           wt \in WordInputs, wh \in WordInputs}

---------------------------------------------------------------------------
(* The state machine.                                                      *)

Fresh == [op |-> "init", args |-> <<>>, i2c |-> <<>>, n |-> 0,
          exc |-> "none", val |-> <<>>, log |-> <<>>]

\* a call that has been made and has not run yet
Pending(op, args, i2c, n) ==
    [op |-> op, args |-> args, i2c |-> i2c, n |-> n,
     exc |-> "pending", val |-> <<>>, log |-> <<>>]

IsPending(op) == last.exc = "pending" /\ last.op = op

\* a call of a bridge method: at most MaxOps of them in a behaviour, which
\* keeps the register contents that are reached finite
Call(op, args, t, r) ==
    /\ calls < MaxOps
    /\ calls' = calls + 1
    /\ last' = [op |-> op, args |-> args, i2c |-> t.i2c, n |-> t.n,
                exc |-> r.exc, val |-> r.val, log |-> r.t.log]
    /\ reg' = r.t.reg
    /\ pre' = reg
    /\ UNCHANGED <<serial_baudrate, inbuf, prev>>

\* the pending call of a sensor method runs
SensorCall(op, r) ==
    /\ IsPending(op)
    /\ last' = [last EXCEPT !.exc = r.exc, !.val = r.val, !.log = r.t.log]
    /\ reg' = r.t.reg
    /\ pre' = reg
    /\ UNCHANGED <<calls, serial_baudrate, inbuf, prev>>

\* the pending call of a function that touches nothing runs
Pure(op, r) ==
    /\ IsPending(op)
    /\ last' = [last EXCEPT !.exc = r.exc, !.val = r.val]
    /\ UNCHANGED <<reg, pre, calls, serial_baudrate, inbuf, prev>>


\* SC18IM700.__init__ and open: the port is set to 9600 baud and its input
\* buffer is reset; no call has been made
NoCall == [op |-> "init", args |-> <<>>, exc |-> "none"]

Opened ==
    /\ serial_baudrate = 9600
    /\ inbuf = <<>>
    /\ prev = NoCall

(* SC18IM700: each action is one call of a method, with its arguments and  *)
(* the environment's part (slave data, bytes arriving in time) chosen.     *)

ReadI2c ==
    \E a \in AddrInputs, size \in SizeInputs :
      \E n \in ArrivalInputs(size) :
        LET t == NewT(reg, SlaveData(size), n)
        IN  Call("read_i2c", <<a, size>>, t, read_i2c(t, a, size))

WriteI2c ==
    \E a \in AddrInputs, data \in DataInputs :
        LET t == NewT(reg, <<>>, 0)
        IN  Call("write_i2c", <<a, data>>, t, write_i2c(t, a, data))

ReadReg ==
    \E ra \in RegAddrInputs :
      \E n \in ArrivalInputs(Len(ra)) :
        LET t == NewT(reg, <<>>, n)
        IN  Call("read_reg", <<ra>>, t, read_reg(t, ra))

ReadGpio ==
    \E n \in 0..1 :
        LET t == NewT(reg, <<>>, n)
        IN  Call("read_gpio", <<>>, t, read_gpio(t))

WriteGpio ==
    \E data \in GpioInputs :
        LET t == NewT(reg, <<>>, 0)
        IN  Call("write_gpio", <<data>>, t, write_gpio(t, data))

GetPortConf ==
    \E port \in PortInputs, n \in 0..2 :
        LET t == NewT(reg, <<>>, n)
        IN  Call("get_port_conf", <<port>>, t, get_port_conf(t, port))

SetPortConf ==
    \E port \in PortInputs, value \in ValueInputs, n \in 0..2 :
        LET t == NewT(reg, <<>>, n)
        IN  Call("set_port_conf", <<port, value>>, t, set_port_conf(t, port, value))

PortIn ==
    \E port \in PortInputs, n \in 0..1 :
        LET t == NewT(reg, <<>>, n)
        IN  Call("port_in", <<port>>, t, port_in(t, port))

PortOut ==
    \E port \in PortInputs, value \in BOOLEAN, n \in 0..1 :
        LET t == NewT(reg, <<>>, n)
        IN  Call("port_out", <<port, value>>, t, port_out(t, port, value))

GetI2cMasterAddr ==
    \E n \in 0..1 :
        LET t == NewT(reg, <<>>, n)
        IN  Call("get_i2c_master_addr", <<>>, t, get_i2c_master_addr(t))

SetI2cMasterAddr ==
    \E value \in AddrInputs :
        LET t == NewT(reg, <<>>, 0)
        IN  Call("set_i2c_master_addr", <<value>>, t, set_i2c_master_addr(t, value))

GetI2cStatus ==
    \E n \in 0..1 :
        LET t == NewT(reg, <<>>, n)
        IN  Call("get_i2c_status", <<>>, t, get_i2c_status(t))

Init ==
    /\ reg \in RegSamples
    /\ pre = reg
    /\ last = Fresh
    /\ calls = 0
    /\ Opened

Next ==
    \/ ReadI2c
    \/ WriteI2c
    \/ ReadReg
    \/ ReadGpio
    \/ WriteGpio
    \/ GetPortConf
    \/ SetPortConf
    \/ PortIn
    \/ PortOut
    \/ GetI2cMasterAddr
    \/ SetI2cMasterAddr
    \/ GetI2cStatus

Spec == Init /\ [][Next]_vars

---------------------------------------------------------------------------
(* SHT30: a behaviour is one call of a method.  The initial state holds    *)
(* the call and the environment's part of it: the bytes the sensor answers *)
(* with and how many of them arrive in time.  The action runs the method.  *)

CommandOps == {"soft_reset", "heater_enable", "heater_disable", "clear_status"}

StatusOps == {"read_status", "is_alerting", "heater_enabled", "is_humi_alerting",
              "is_temp_alerting", "is_reset_detected", "is_command_failed",
              "is_write_crc_error"}

MeasureOps == {"singleshot_measure", "measure_and_convert"}

\* the transport as the pending call finds it
T == NewT(reg, last.i2c, last.n)

SoftReset == SensorCall("soft_reset", soft_reset(T))

HeaterEnable == SensorCall("heater_enable", heater_enable(T))

HeaterDisable == SensorCall("heater_disable", heater_disable(T))

ClearStatus == SensorCall("clear_status", clear_status(T))

ReadStatus == SensorCall("read_status", read_status(T))

IsAlerting == SensorCall("is_alerting", is_alerting(T))

HeaterEnabled == SensorCall("heater_enabled", heater_enabled(T))

IsHumiAlerting == SensorCall("is_humi_alerting", is_humi_alerting(T))

IsTempAlerting == SensorCall("is_temp_alerting", is_temp_alerting(T))

IsResetDetected == SensorCall("is_reset_detected", is_reset_detected(T))

IsCommandFailed == SensorCall("is_command_failed", is_command_failed(T))

IsWriteCrcError == SensorCall("is_write_crc_error", is_write_crc_error(T))

SingleshotMeasure == SensorCall("singleshot_measure", singleshot_measure(T))

MeasureAndConvert == SensorCall("measure_and_convert", measure_and_convert(T))

InitSensor ==
    /\ reg = RegFile(0, 0, 38)
    /\ pre = reg
    /\ last \in
         {Pending(op, <<>>, <<>>, 0) : op \in CommandOps}
         \cup {Pending(op, <<>>, d, n) :
                  op \in StatusOps, d \in StatusData, n \in {0, 2, 3}}
         \cup {Pending(op, <<>>, d, n) :
                  op \in MeasureOps, d \in MeasureData, n \in {0, 5, 6}}
    /\ calls = 0
    /\ Opened

NextSensor ==
    \/ SoftReset
    \/ HeaterEnable
    \/ HeaterDisable
    \/ ClearStatus
    \/ ReadStatus
    \/ IsAlerting
    \/ HeaterEnabled
    \/ IsHumiAlerting
    \/ IsTempAlerting
    \/ IsResetDetected
    \/ IsCommandFailed
    \/ IsWriteCrcError
    \/ SingleshotMeasure
    \/ MeasureAndConvert

SpecSensor == InitSensor /\ [][NextSensor]_vars

---------------------------------------------------------------------------
(* The pure functions: the initial state holds the call with its argument. *)

Bytes == 0..255

Crc8 == Pure("crc8", [exc |-> "none", val |-> crc8(last.args[1])])

InitCrc ==
    /\ reg = RegFile(0, 0, 38)
    /\ pre = reg
    /\ last \in {Pending("crc8", <<data>>, <<>>, 0) :
                     data \in {<<>>} \cup {<<a>> : a \in Bytes} \cup (Bytes \X Bytes)}
    /\ calls = 0
    /\ Opened

SpecCrc == InitCrc /\ [][Crc8]_vars

I2cReadAddr == Pure("i2c_read_addr", i2c_read_addr(last.args[1]))

I2cWriteAddr == Pure("i2c_write_addr", i2c_write_addr(last.args[1]))

InitAddr ==
    /\ reg = RegFile(0, 0, 38)
    /\ pre = reg
    /\ last \in {Pending(op, <<a>>, <<>>, 0) :
                     op \in {"i2c_read_addr", "i2c_write_addr"},
                     a \in (0 - AddrMargin)..(127 + AddrMargin)}
    /\ calls = 0
    /\ Opened

NextAddr == I2cReadAddr \/ I2cWriteAddr

SpecAddr == InitAddr /\ [][NextAddr]_vars

TemperatureC ==
    Pure("temperature_C",
         [exc |-> "none",
          val |-> <<temperature_C(last.args[1]), temperature_C(last.args[2])>>])

TemperatureF ==
    Pure("temperature_F",
         [exc |-> "none",
          val |-> <<temperature_F(last.args[1]), temperature_F(last.args[2])>>])

RelativeHumidity ==
    Pure("relative_humidity",
         [exc |-> "none",
          val |-> <<relative_humidity(last.args[1]), relative_humidity(last.args[2])>>])

InitConv ==
    /\ reg = RegFile(0, 0, 38)
    /\ pre = reg
    \* a conversion is applied to a raw value and to the next one up
    /\ last \in {Pending(op, <<r, r + 1>>, <<>>, 0) :
                     op \in {"temperature_C", "temperature_F", "relative_humidity"},
                     r \in 0..(2^16 - 2)}
    /\ calls = 0
    /\ Opened

NextConv == TemperatureC \/ TemperatureF \/ RelativeHumidity

SpecConv == InitConv /\ [][NextConv]_vars

---------------------------------------------------------------------------
(* Sequences of calls on one bridge and the sensor engine on top of it.    *)
(* The input buffer of the serial port lives on between the calls: bytes   *)
(* of a response that did not arrive before the read timeout either arrive *)
(* later and wait in the buffer, or never arrive.  The next call reads     *)
(* from the front of the buffer, as serial.read does.                      *)

\* calls per behaviour of SpecEngine, SpecBaud and SpecRegs
MaxCalls == 2

\* the transport as a call finds it: what is in the input buffer is there
\* to be read, and n bytes of the answers to come arrive in time
Ctx(i2c, n) ==
    [reg |-> reg, rx |-> inbuf, log |-> <<>>, i2c |-> i2c, n |-> Len(inbuf) + n]

\* self.serial.baudrate after a call: the last value the call assigned
BaudAfter(log, baud) ==
    LET b == SelectSeq(log, LAMBDA e : e.ev = "baudrate")
    IN  IF b = <<>> THEN baud ELSE b[Len(b)].value

\* one call of a method, run to its end
Step(op, args, t, r) ==
    /\ calls < MaxCalls
    /\ calls' = calls + 1
    /\ prev' = last
    /\ last' = [op |-> op, args |-> args, i2c |-> t.i2c, n |-> t.n,
                stale |-> inbuf, baud |-> serial_baudrate,
                exc |-> r.exc, val |-> r.val, log |-> r.t.log]
    /\ reg' = r.t.reg
    /\ pre' = reg
    \* what was not read arrives late and waits in the buffer, or is lost
    /\ inbuf' \in {r.t.rx, <<>>}
    /\ serial_baudrate' = BaudAfter(r.t.log, serial_baudrate)

\* a status or measurement word with its checksum byte, right or wrong
Checked(word, ok) ==
    LET c == crc8(<<word \div 256, word % 256>>)
    IN  <<word \div 256, word % 256, IF ok THEN c ELSE BitXor(c, 128)>>

\* status answers: no flag, alert and reset flags, a corrupted checksum
EngineStatus == {Checked(0, TRUE), Checked(32784, TRUE), Checked(32784, FALSE)}

\* <<answer, bytes of it that arrive in time>>
StatusCases == (EngineStatus \X {3}) \cup {<<Checked(0, TRUE), 2>>}

FlagCases == {<<Checked(32784, TRUE), 3>>}

MeasureCases ==
    {<<Checked(27731, TRUE) \o Checked(19558, TRUE), 6>>,
     <<Checked(27731, TRUE) \o Checked(19558, FALSE), 6>>,
     <<Checked(27731, TRUE) \o Checked(19558, TRUE), 5>>}

DoBegin ==
    \E c \in StatusCases :
        LET t == Ctx(c[1], c[2]) IN Step("begin", <<>>, t, begin(t))

DoSoftReset ==
    LET t == Ctx(<<>>, 0) IN Step("soft_reset", <<>>, t, soft_reset(t))

DoHeaterEnable ==
    LET t == Ctx(<<>>, 0) IN Step("heater_enable", <<>>, t, heater_enable(t))

DoHeaterDisable ==
    LET t == Ctx(<<>>, 0) IN Step("heater_disable", <<>>, t, heater_disable(t))

DoClearStatus ==
    LET t == Ctx(<<>>, 0) IN Step("clear_status", <<>>, t, clear_status(t))

DoReadStatus ==
    \E c \in StatusCases :
        LET t == Ctx(c[1], c[2]) IN Step("read_status", <<>>, t, read_status(t))

DoIsAlerting ==
    \E c \in StatusCases :
        LET t == Ctx(c[1], c[2]) IN Step("is_alerting", <<>>, t, is_alerting(t))

DoHeaterEnabled ==
    \E c \in FlagCases :
        LET t == Ctx(c[1], c[2]) IN Step("heater_enabled", <<>>, t, heater_enabled(t))

DoIsHumiAlerting ==
    \E c \in FlagCases :
        LET t == Ctx(c[1], c[2]) IN Step("is_humi_alerting", <<>>, t, is_humi_alerting(t))

DoIsTempAlerting ==
    \E c \in FlagCases :
        LET t == Ctx(c[1], c[2]) IN Step("is_temp_alerting", <<>>, t, is_temp_alerting(t))

DoIsResetDetected ==
    \E c \in FlagCases :
        LET t == Ctx(c[1], c[2]) IN Step("is_reset_detected", <<>>, t, is_reset_detected(t))

DoIsCommandFailed ==
    \E c \in FlagCases :
        LET t == Ctx(c[1], c[2]) IN Step("is_command_failed", <<>>, t, is_command_failed(t))

DoIsWriteCrcError ==
    \E c \in FlagCases :
        LET t == Ctx(c[1], c[2]) IN Step("is_write_crc_error", <<>>, t, is_write_crc_error(t))

DoSingleshotMeasure ==
    \E c \in MeasureCases :
        LET t == Ctx(c[1], c[2])
        IN  Step("singleshot_measure", <<>>, t, singleshot_measure(t))

\* bridge calls: <<arguments, bytes of the answer that arrive in time>>
DoReadI2c ==
    \E c \in {<<-1, 3, 3>>, <<SHT30_I2C_ADDR, 3, 2>>, <<SHT30_I2C_ADDR, 3, 3>>} :
        LET t == Ctx(SlaveData(c[2]), c[3])
        IN  Step("read_i2c", <<c[1], c[2]>>, t, read_i2c(t, c[1], c[2]))

DoWriteI2c ==
    \E a \in {SHT30_I2C_ADDR, 128} :
        LET t == Ctx(<<>>, 0)
        IN  Step("write_i2c", <<a, <<170>>>>, t, write_i2c(t, a, <<170>>))

DoReadReg ==
    \E c \in {<<<<>>, 0>>, <<<<PORTCONF2, IOSTATE, PORTCONF1>>, 2>>,
               <<<<PORTCONF2, IOSTATE, PORTCONF1>>, 3>>} :
        LET t == Ctx(<<>>, c[2]) IN Step("read_reg", <<c[1]>>, t, read_reg(t, c[1]))

DoWriteReg(inputs) ==
    \E p \in inputs :
        LET t == Ctx(<<>>, 0)
        IN  Step("write_reg", p, t, write_reg(t, p[1], p[2]))

DoReadGpio ==
    \E n \in 0..1 :
        LET t == Ctx(<<>>, n) IN Step("read_gpio", <<>>, t, read_gpio(t))

DoWriteGpio ==
    \E data \in {<<>>, <<90>>} :
        LET t == Ctx(<<>>, 0) IN Step("write_gpio", <<data>>, t, write_gpio(t, data))

DoGetPortConf ==
    \E c \in {<<3, 1>>, <<3, 2>>, <<8, 2>>} :
        LET t == Ctx(<<>>, c[2])
        IN  Step("get_port_conf", <<c[1]>>, t, get_port_conf(t, c[1]))

DoSetPortConf ==
    \E c \in {<<3, 2, 1>>, <<3, 2, 2>>, <<3, 4, 2>>, <<8, 2, 2>>} :
        LET t == Ctx(<<>>, c[3])
        IN  Step("set_port_conf", <<c[1], c[2]>>, t, set_port_conf(t, c[1], c[2]))

DoPortIn ==
    \E c \in {<<3, 0>>, <<3, 1>>, <<8, 1>>} :
        LET t == Ctx(<<>>, c[2]) IN Step("port_in", <<c[1]>>, t, port_in(t, c[1]))

DoPortOut ==
    \E c \in {<<3, 0>>, <<3, 1>>, <<8, 1>>} :
        LET t == Ctx(<<>>, c[2])
        IN  Step("port_out", <<c[1], TRUE>>, t, port_out(t, c[1], TRUE))

DoGetI2cMasterAddr ==
    \E n \in 0..1 :
        LET t == Ctx(<<>>, n)
        IN  Step("get_i2c_master_addr", <<>>, t, get_i2c_master_addr(t))

DoSetI2cMasterAddr(values) ==
    \E value \in values :
        LET t == Ctx(<<>>, 0)
        IN  Step("set_i2c_master_addr", <<value>>, t, set_i2c_master_addr(t, value))

DoGetI2cStatus ==
    \E n \in 0..1 :
        LET t == Ctx(<<>>, n) IN Step("get_i2c_status", <<>>, t, get_i2c_status(t))

DoBaudrate ==
    \E n \in 1..2 :
        LET t == Ctx(<<>>, n) IN Step("baudrate", <<>>, t, baudrate(t))

DoChangeBaudrate(values) ==
    \E value \in values :
        LET t == Ctx(<<>>, 0)
        IN  Step("change_baudrate", <<value>>, t, change_baudrate(t, value))

\* SC18IM700.__init__ and SHT30.__init__: nothing is sent, no call is made
InitEngine ==
    /\ reg = RegFile(42435, 165, 38)
    /\ pre = reg
    /\ last = Fresh
    /\ calls = 0
    /\ Opened

NextEngine ==
    \/ DoBegin
    \/ DoSoftReset
    \/ DoHeaterEnable
    \/ DoHeaterDisable
    \/ DoClearStatus
    \/ DoReadStatus
    \/ DoIsAlerting
    \/ DoHeaterEnabled
    \/ DoIsHumiAlerting
    \/ DoIsTempAlerting
    \/ DoIsResetDetected
    \/ DoIsCommandFailed
    \/ DoIsWriteCrcError
    \/ DoSingleshotMeasure
    \/ DoReadI2c
    \/ DoWriteI2c
    \/ DoReadReg
    \/ DoWriteReg({<<<<IOSTATE>>, <<90>>>>})
    \/ DoReadGpio
    \/ DoWriteGpio
    \/ DoGetPortConf
    \/ DoSetPortConf
    \/ DoPortIn
    \/ DoPortOut
    \/ DoGetI2cMasterAddr
    \/ DoSetI2cMasterAddr({38, 128})
    \/ DoGetI2cStatus
    \/ DoBaudrate
    \/ DoChangeBaudrate({0, 9600})

SpecEngine == InitEngine /\ [][NextEngine]_vars

---------------------------------------------------------------------------
(* The register accessors: write_reg and the I2C master address.           *)

\* write_reg(reg_addr, data): lists of equal and of different lengths, and
\* every kind of byte written to I2CADR
RegWriteInputs ==
    {<<<<>>, <<>>>>,
     <<<<BRG0, BRG1>>, <<48, 0>>>>,
     <<<<PORTCONF1, PORTCONF2, IOSTATE>>, <<1, 2, 3>>>>,
     <<<<BRG0, BRG1>>, <<48>>>>,
     <<<<IOSTATE>>, <<>>>>,
     <<<<>>, <<7>>>>,
     <<<<IOSTATE>>, <<5, 6>>>>}
    \cup {<<<<I2CADR>>, <<r>>>> : r \in {1, 3, 77, 129, 254, 255}}

InitRegs ==
    /\ reg = RegFile(42435, 165, 38)
    /\ pre = reg
    /\ last = Fresh
    /\ calls = 0
    /\ Opened

NextRegs ==
    \/ DoWriteReg(RegWriteInputs)
    \/ DoSetI2cMasterAddr(-1..128)
    \/ DoGetI2cMasterAddr

SpecRegs == InitRegs /\ [][NextRegs]_vars

---------------------------------------------------------------------------
(* The baud rate: change_baudrate and the property baudrate.               *)

\* requested rates: the standard ones, rates that do not divide 7372800,
\* the limits of the 16-bit divisor (113 and 460800) and values beyond them
BaudInputs ==
    {-9600, 0, 1, 112, 113, 300, 1200, 2400, 4800, 9600, 14400, 19200, 38400,
     57600, 100000, 115200, 128000, 230400, 250000, 256000, 327680, 460800,
     460801, 500000, 921600, 7372800}

\* the bridge is at its power-on divisor, that of 9600 baud
InitBaud ==
    /\ reg = RegFile(42435, 165, 38)
    /\ pre = reg
    /\ last = Fresh
    /\ calls = 0
    /\ Opened

NextBaud ==
    \/ DoChangeBaudrate(BaudInputs)
    \/ DoBaudrate

SpecBaud == InitBaud /\ [][NextBaud]_vars

---------------------------------------------------------------------------
(* Properties.                                                             *)

\* the last call has run
Done(op) == last.op = op /\ last.exc # "pending"

\* the frames a call wrote and the reads it made, in order
Writes(log) == SelectSeq(log, LAMBDA e : e.ev = "write")

Reads(log) == SelectSeq(log, LAMBDA e : e.ev = "read")

RECURSIVE BytesWritten(_)
BytesWritten(log) ==
    IF log = <<>> THEN 0
    ELSE (IF Head(log).ev = "write" THEN Len(Head(log).data) ELSE 0)
         + BytesWritten(Tail(log))

RECURSIVE BytesRead(_)
BytesRead(log) ==
    IF log = <<>> THEN 0
    ELSE (IF Head(log).ev = "read" THEN Len(Head(log).data) ELSE 0)
         + BytesRead(Tail(log))

(***************************************************************************)
(* C1: for every I2C address a in 0..0x7F i2c_read_addr(a) is 2a+1, the    *)
(* address shifted left with bit 0 set, and i2c_write_addr(a) is 2a, the   *)
(* address shifted left with bit 0 clear; for every a outside 0..0x7F both *)
(* raise ValueError and return nothing.                                    *)
(***************************************************************************)
C1_AddrEncoding ==
    \A op \in {"i2c_read_addr", "i2c_write_addr"} :
        Done(op) =>
            LET a == last.args[1]
            IN  IF a \in 0..127
                THEN /\ last.exc = "none"
                     /\ last.val = 2 * a + (IF op = "i2c_read_addr" THEN 1 ELSE 0)
                     /\ last.val \in 0..255
                ELSE /\ last.exc = "ValueError"
                     /\ last.val = <<>>

C1_Witness ==
    /\ Done("i2c_read_addr")
    /\ last.args = <<SHT30_I2C_ADDR>>
    /\ last.exc = "none"
    /\ last.val = 137

(***************************************************************************)
(* C2: a call of read_i2c, write_i2c, read_reg, write_gpio, get_port_conf, *)
(* set_port_conf, port_in, port_out or set_i2c_master_addr with an         *)
(* argument out of its range raises ValueError, and it has then written    *)
(* no byte to the serial port and read none from it.                       *)
(***************************************************************************)
InvalidArgs ==
    LET a == last.args
    IN  CASE last.op = "read_i2c" -> a[1] \notin 0..127 \/ a[2] \notin 0..255
          [] last.op = "write_i2c" -> a[1] \notin 0..127 \/ Len(a[2]) \notin 0..255
          [] last.op = "read_reg" -> Len(a[1]) \notin 0..255
          [] last.op = "write_gpio" -> Len(a[1]) # 1
          [] last.op \in {"get_port_conf", "port_in", "port_out"} -> a[1] \notin 0..7
          [] last.op = "set_port_conf" -> a[1] \notin 0..7 \/ a[2] \notin 0..3
          [] last.op = "set_i2c_master_addr" -> a[1] \notin 0..127
          [] OTHER -> FALSE

C2_ValidationBeforeIO ==
    (last.exc # "pending" /\ InvalidArgs) =>
        /\ last.exc = "ValueError"
        /\ Writes(last.log) = <<>>
        /\ Reads(last.log) = <<>>
        /\ BytesWritten(last.log) = 0
        /\ BytesRead(last.log) = 0
        /\ reg = pre

C2_Witness ==
    /\ Done("set_port_conf")
    /\ last.args = <<3, 4>>
    /\ last.exc = "ValueError"
    /\ last.log = <<>>

(***************************************************************************)
(* C3: read_i2c(addr, size) and read_reg(addrs), called with arguments in  *)
(* range, raise RuntimeError and return nothing when fewer bytes than      *)
(* requested arrive before the read timeout, and otherwise return exactly  *)
(* the requested number of bytes: the bytes the bridge sent.               *)
(***************************************************************************)
C3_Requested ==
    IF last.op = "read_i2c" THEN last.args[2] ELSE Len(last.args[1])

C3_Sent ==
    IF last.op = "read_i2c" THEN last.i2c
    ELSE [i \in 1..Len(last.args[1]) |-> pre[last.args[1][i]]]

C3_ShortRead ==
    ((Done("read_i2c") \/ Done("read_reg")) /\ ~InvalidArgs) =>
        IF last.n < C3_Requested
        THEN /\ last.exc = "RuntimeError"
             /\ last.val = <<>>
        ELSE /\ last.exc = "none"
             /\ Len(last.val) = C3_Requested
             /\ last.val = C3_Sent

C3_Witness ==
    /\ Done("read_i2c")
    /\ last.args = <<SHT30_I2C_ADDR, 3>>
    /\ last.n = 2
    /\ last.exc = "RuntimeError"
    /\ BytesRead(last.log) = 2

(***************************************************************************)
(* C4: when all six bytes [tHi,tLo,tCrc,hHi,hLo,hCrc] of the response      *)
(* arrive, singleshot_measure returns (tHi*256+tLo, hHi*256+hLo) if and    *)
(* only if crc8([tHi,tLo]) = tCrc and crc8([hHi,hLo]) = hCrc, and raises   *)
(* RuntimeError, returning nothing, if either checksum or both mismatch;   *)
(* read_status returns sHi*256+sLo if and only if crc8([sHi,sLo]) is the   *)
(* third byte, and raises RuntimeError otherwise.                          *)
(***************************************************************************)
C4_ChecksumGate ==
    LET d == last.i2c
    IN  /\ (Done("singleshot_measure") /\ last.n >= 6) =>
               IF crc8(<<d[1], d[2]>>) = d[3] /\ crc8(<<d[4], d[5]>>) = d[6]
               THEN /\ last.exc = "none"
                    /\ last.val = <<d[1] * 256 + d[2], d[4] * 256 + d[5]>>
               ELSE /\ last.exc = "RuntimeError"
                    /\ last.val = <<>>
        /\ (Done("read_status") /\ last.n >= 3) =>
               IF crc8(<<d[1], d[2]>>) = d[3]
               THEN /\ last.exc = "none"
                    /\ last.val = d[1] * 256 + d[2]
               ELSE /\ last.exc = "RuntimeError"
                    /\ last.val = <<>>

\* only the humidity checksum is corrupted
C4_Witness ==
    /\ Done("singleshot_measure")
    /\ last.n = 6
    /\ crc8(<<last.i2c[1], last.i2c[2]>>) = last.i2c[3]
    /\ crc8(<<last.i2c[4], last.i2c[5]>>) # last.i2c[6]
    /\ last.exc = "RuntimeError"

(***************************************************************************)
(* C5 as stated: crc8 is order-sensitive, crc8([a,b]) # crc8([b,a]) for    *)
(* all bytes a # b.                                                        *)
(***************************************************************************)
C5_OrderSensitive ==
    (Done("crc8") /\ Len(last.args[1]) = 2) =>
        LET a == last.args[1][1]
            b == last.args[1][2]
        IN  a # b => last.val # crc8(<<b, a>>)

(***************************************************************************)
(* C5, amended: for all bytes a # b, crc8([a,b]) = crc8([b,a]) exactly     *)
(* when a XOR b = 0xEF; crc8 is order-sensitive on every other pair.       *)
(***************************************************************************)
C5_OrderSensitiveExcept0xEF ==
    (Done("crc8") /\ Len(last.args[1]) = 2) =>
        LET a == last.args[1][1]
            b == last.args[1][2]
        IN  a # b => ((last.val = crc8(<<b, a>>)) <=> (BitXor(a, b) = 239))

C5_Witness ==
    /\ Done("crc8")
    /\ last.args[1] = <<190, 239>>
    /\ last.val # crc8(<<239, 190>>)

(***************************************************************************)
(* C6: for every byte sequence of length 0..2, crc8 returns a value in     *)
(* 0..255 equal to the reference CRC-8 (polynomial 0x31, initial value     *)
(* 0xFF, MSB first, no final XOR) whose register is kept to 8 bits at      *)
(* every step; crc8([0xBE,0xEF]) = 0x92.                                   *)
(***************************************************************************)
RECURSIVE RefCrc8Bits(_, _)
RefCrc8Bits(crc, k) ==
    IF k = 0 THEN crc
    ELSE RefCrc8Bits(IF crc >= 128
                     THEN BitXor((2 * crc) % 256, 49)
                     ELSE (2 * crc) % 256,
                     k - 1)

RECURSIVE RefCrc8(_, _)
RefCrc8(crc, data) ==
    IF data = <<>> THEN crc
    ELSE RefCrc8(RefCrc8Bits(BitXor(crc, Head(data)), 8), Tail(data))

C6_Crc8IsReference ==
    Done("crc8") =>
        /\ last.val \in 0..255
        /\ last.val = RefCrc8(255, last.args[1])
        /\ last.args[1] = <<190, 239>> => last.val = 146

C6_Witness ==
    /\ Done("crc8")
    /\ last.args[1] = <<190, 239>>
    /\ last.val = 146

(***************************************************************************)
(* C7: a successful set_port_conf(p, v) leaves the 2-bit field of port p   *)
(* in the port-configuration registers equal to v and the fields of the    *)
(* seven other ports as they were, writing both registers back in one      *)
(* frame; a successful port_out(p, v) writes back a byte whose bit p is v  *)
(* and whose seven other bits are those of the byte just read.             *)
(***************************************************************************)
PortConf(r) == r[PORTCONF1] + 256 * r[PORTCONF2]

Field(word, q) == (word \div 4^q) % 4

Bit(byte, q) == (byte \div 2^q) % 2

C7_MaskedUpdate ==
    /\ (Done("set_port_conf") /\ last.exc = "none") =>
           LET p == last.args[1]
               v == last.args[2]
           IN  /\ \A q \in 0..7 :
                     Field(PortConf(reg), q) =
                         IF q = p THEN v ELSE Field(PortConf(pre), q)
               /\ Writes(last.log)[2].data =
                     <<W_CHAR, PORTCONF1, reg[PORTCONF1],
                       PORTCONF2, reg[PORTCONF2], P_CHAR>>
               /\ \A a \in Registers \ {PORTCONF1, PORTCONF2} : reg[a] = pre[a]
    /\ (Done("port_out") /\ last.exc = "none") =>
           LET p == last.args[1]
               v == IF last.args[2] THEN 1 ELSE 0
               wasread == Reads(last.log)[1].data[1]
               written == Writes(last.log)[2].data[2]
           IN  /\ Len(Writes(last.log)[2].data) = 3
               /\ \A q \in 0..7 :
                     Bit(written, q) = IF q = p THEN v ELSE Bit(wasread, q)
               /\ reg[IOSTATE] = written

\* port 3 set to 2 in 0xA5C3, where it was 3 and other ports are not 0
C7_Witness ==
    /\ Done("set_port_conf")
    /\ last.args = <<3, 2>>
    /\ last.exc = "none"
    /\ PortConf(pre) = 42435
    /\ PortConf(reg) = 42371

(***************************************************************************)
(* C8: for every status word w the sensor delivers with a correct          *)
(* checksum, each flag property makes one read_status transaction of its   *)
(* own (the read-status command written, then one 3-byte I2C read) and     *)
(* returns true exactly when its bit of w is set: is_alerting 0x8000,      *)
(* heater_enabled 0x2000, is_humi_alerting 0x0800, is_temp_alerting        *)
(* 0x0400, is_reset_detected 0x0010, is_command_failed 0x0002,             *)
(* is_write_crc_error 0x0001; for 0x80 0x10 exactly is_alerting and        *)
(* is_reset_detected are true.                                             *)
(***************************************************************************)
FlagMask(op) ==
    CASE op = "is_alerting" -> 32768
      [] op = "heater_enabled" -> 8192
      [] op = "is_humi_alerting" -> 2048
      [] op = "is_temp_alerting" -> 1024
      [] op = "is_reset_detected" -> 16
      [] op = "is_command_failed" -> 2
      [] op = "is_write_crc_error" -> 1

FlagOps == StatusOps \ {"read_status"}

C8_FlagDecoding ==
    \A op \in FlagOps :
        (/\ Done(op)
         /\ last.n >= 3
         /\ crc8(<<last.i2c[1], last.i2c[2]>>) = last.i2c[3]) =>
            LET w == last.i2c[1] * 256 + last.i2c[2]
            IN  /\ last.exc = "none"
                /\ last.val = ((w \div FlagMask(op)) % 2 = 1)
                /\ w = 32784 =>
                       last.val = (op \in {"is_alerting", "is_reset_detected"})
                /\ Len(Writes(last.log)) = 2
                /\ Writes(last.log)[1].data = <<S_CHAR, 136, 2, 243, 45, P_CHAR>>
                /\ Writes(last.log)[2].data = <<S_CHAR, 137, 3, P_CHAR>>
                /\ Len(Reads(last.log)) = 1
                /\ Reads(last.log)[1].size = 3
                /\ Reads(last.log)[1].data = last.i2c
                /\ last.log[Len(last.log)].ev = "read"

C8_Witness ==
    /\ Done("is_reset_detected")
    /\ last.n = 3
    /\ last.i2c = <<128, 16, crc8(<<128, 16>>)>>
    /\ last.exc = "none"
    /\ last.val = TRUE

(***************************************************************************)
(* Floats: comparison with an integer, between floats of one denominator,  *)
(* and rounding to one decimal place (the result is in tenths).            *)
(***************************************************************************)
FloatEq(x, k) == x.num = k * x.den

FloatLe(x, y) == x.den = y.den /\ x.num <= y.num

FloatIn(x, lo, hi) == lo * x.den <= x.num /\ x.num <= hi * x.den

Tenths(x) == (20 * x.num + x.den) \div (2 * x.den)

\* the response with temperature 0x6C 0x53, humidity 0x4C 0x66 has arrived
C9_Scenario ==
    /\ Done("measure_and_convert")
    /\ last.n = 6
    /\ last.i2c = <<108, 83, crc8(<<108, 83>>), 76, 102, crc8(<<76, 102>>)>>

(***************************************************************************)
(* C9 as stated: temperature bytes 0x6C 0x53 and humidity bytes 0x4C 0x66, *)
(* each with its correct checksum, are converted to 26.6 degrees C and     *)
(* 29.8 %RH, rounded to one decimal place.                                 *)
(***************************************************************************)
C9_EndToEnd ==
    C9_Scenario =>
        /\ last.exc = "none"
        /\ Tenths(last.val.tc) = 266
        /\ Tenths(last.val.rh) = 298

(***************************************************************************)
(* C9, amended: temperature bytes 0x6C 0x53 and humidity bytes 0x4C 0x66,  *)
(* each with its correct checksum, give the raw values 27731 and 19558,    *)
(* which are converted to 29.1 degrees C and 29.8 %RH, rounded to one      *)
(* decimal place.                                                          *)
(***************************************************************************)
C9_EndToEndAmended ==
    C9_Scenario =>
        /\ last.exc = "none"
        /\ last.val.temp = 27731
        /\ last.val.humi = 19558
        /\ Tenths(last.val.tc) = 291
        /\ Tenths(last.val.rh) = 298

C9_Witness ==
    /\ C9_Scenario
    /\ last.exc = "none"
    /\ last.val.temp = 27731

(***************************************************************************)
(* C10: temperature_C(0) = -45, temperature_C(65535) = 130,                *)
(* relative_humidity(0) = 0, relative_humidity(65535) = 100, and both are  *)
(* monotonic on 0..65535, so that every result is in [-45,130] resp.       *)
(* [0,100].  Monotonicity is stated for each raw value and the next one    *)
(* up, from which it follows for every pair by transitivity.               *)
(***************************************************************************)
C10_LinearRescaling ==
    /\ Done("temperature_C") =>
           /\ FloatLe(last.val[1], last.val[2])
           /\ FloatIn(last.val[1], -45, 130)
           /\ FloatIn(last.val[2], -45, 130)
           /\ last.args[1] = 0 => FloatEq(last.val[1], -45)
           /\ last.args[2] = 65535 => FloatEq(last.val[2], 130)
    /\ Done("relative_humidity") =>
           /\ FloatLe(last.val[1], last.val[2])
           /\ FloatIn(last.val[1], 0, 100)
           /\ FloatIn(last.val[2], 0, 100)
           /\ last.args[1] = 0 => FloatEq(last.val[1], 0)
           /\ last.args[2] = 65535 => FloatEq(last.val[2], 100)

C10_Witness ==
    /\ Done("temperature_C")
    /\ last.args = <<65534, 65535>>
    /\ FloatEq(last.val[2], 130)
    /\ ~FloatEq(last.val[1], 130)

(***************************************************************************)
(* What a call found on the wire: the frames of the sensor commands and    *)
(* the bytes its last transport read returned.                             *)
(***************************************************************************)
CommandFrame(cmd) == <<S_CHAR, 2 * SHT30_I2C_ADDR, 2>> \o cmd \o <<P_CHAR>>

StatusReadFrame == <<S_CHAR, 2 * SHT30_I2C_ADDR + 1, 3, P_CHAR>>

WriteEv(data) == [ev |-> "write", data |-> data]

SleepEv(ms) == [ev |-> "sleep", ms |-> ms]

LastRead(log) == Reads(log)[Len(Reads(log))].data

\* the call read a whole status with a valid checksum
ValidStatus(call) ==
    /\ Reads(call.log) # <<>>
    /\ Len(LastRead(call.log)) = 3
    /\ crc8(SubSeq(LastRead(call.log), 1, 2)) = LastRead(call.log)[3]

\* ... and its alert bit, 0x8000, is set
AlertStatus(call) == ValidStatus(call) /\ LastRead(call.log)[1] >= 128

(***************************************************************************)
(* C11: begin writes the soft-reset command, sleeps 1 s, writes the        *)
(* heater-disable command, sleeps 10 ms, writes the clear-status command,  *)
(* sleeps 10 ms, and then makes one status read (the read-status command,  *)
(* 10 ms, the 3-byte I2C read frame, 10 ms, one transport read of 3        *)
(* bytes): these eleven steps, in this order, each once.  When the status  *)
(* read has a valid checksum, begin raises RuntimeError if and only if bit *)
(* 0x8000 of the status is set, and returns normally otherwise.            *)
(***************************************************************************)
C11_BeginSequence ==
    Done("begin") =>
        /\ Len(last.log) = 11
        /\ SubSeq(last.log, 1, 10) =
               <<WriteEv(CommandFrame(<<48, 162>>)), SleepEv(1000),
                 WriteEv(CommandFrame(<<48, 102>>)), SleepEv(10),
                 WriteEv(CommandFrame(<<48, 65>>)), SleepEv(10),
                 WriteEv(CommandFrame(<<243, 45>>)), SleepEv(10),
                 WriteEv(StatusReadFrame), SleepEv(10)>>
        /\ last.log[11].ev = "read"
        /\ last.log[11].size = 3
        /\ ValidStatus(last) =>
               /\ (last.exc = "RuntimeError") <=> AlertStatus(last)
               /\ (last.exc = "none") <=> ~AlertStatus(last)

C11_Witness ==
    /\ Done("begin")
    /\ last.stale = <<>>
    /\ LastRead(last.log) = <<128, 16, crc8(<<128, 16>>)>>
    /\ last.exc = "RuntimeError"

(***************************************************************************)
(* C12: once begin has failed because the alert flag was set, the engine   *)
(* is Faulted and no operation is carried out on it again: the call that   *)
(* follows such a begin on the same engine writes no frame.                *)
(***************************************************************************)
C12_FaultedIsTerminal ==
    (/\ prev.op = "begin"
     /\ prev.exc = "RuntimeError"
     /\ AlertStatus(prev)
     /\ last.op \in CommandOps \cup StatusOps \cup {"singleshot_measure", "begin"}) =>
        Writes(last.log) = <<>>

(***************************************************************************)
(* C13: no operation retries.  A call that ends with a validation error    *)
(* (ValueError, or the ZeroDivisionError / OverflowError of                 *)
(* change_baudrate) has written and read nothing.  A call that ends with   *)
(* RuntimeError (short read, checksum mismatch, alert state) ended at a    *)
(* transport read: that read is the last thing the call did.  In every     *)
(* call a short read is the last step and ends the call with RuntimeError, *)
(* and no frame is written twice.                                          *)
(***************************************************************************)
C13_NoRetry ==
    last.op # "init" =>
        LET log == last.log
            w == Writes(log)
        IN  /\ last.exc \in {"ValueError", "ZeroDivisionError", "OverflowError"} =>
                   w = <<>> /\ Reads(log) = <<>>
            /\ last.exc = "RuntimeError" =>
                   log # <<>> /\ log[Len(log)].ev = "read"
            /\ \A i \in 1..Len(log) :
                   (log[i].ev = "read" /\ Len(log[i].data) < log[i].size) =>
                       i = Len(log) /\ last.exc = "RuntimeError"
            /\ \A i, j \in 1..Len(w) : i # j => w[i].data # w[j].data

\* set_port_conf whose register read came back short: nothing is written back
C13_Witness ==
    /\ Done("set_port_conf")
    /\ last.stale = <<>>
    /\ last.exc = "RuntimeError"
    /\ Len(Writes(last.log)) = 1
    /\ Len(LastRead(last.log)) = 1
    /\ reg = pre

(***************************************************************************)
(* C14: no pipelining.  Whenever a call writes a frame, every byte the     *)
(* bridge has sent in answer to earlier frames has been read: none waits   *)
(* in the input buffer from an earlier call, and none is outstanding from  *)
(* an earlier frame of this call.  A frame that is answered is followed by *)
(* its settle delay before anything else is done.                          *)
(***************************************************************************)
\* the number of bytes the bridge answers a frame with
Answer(frame) ==
    CASE frame[1] = S_CHAR /\ frame[2] % 2 = 1 -> frame[3]
      [] frame[1] = R_CHAR -> Len(frame) - 2
      [] frame[1] = I_CHAR -> 1
      [] OTHER -> 0

\* no write in log while bytes are owed, owed of them at its start
RECURSIVE NothingOwedAtWrites(_, _)
NothingOwedAtWrites(log, owed) ==
    IF log = <<>> THEN TRUE
    ELSE LET e == Head(log)
         IN  CASE e.ev = "write" ->
                     /\ owed = 0
                     /\ NothingOwedAtWrites(Tail(log), Answer(e.data))
               [] e.ev = "read" ->
                     NothingOwedAtWrites(Tail(log), owed - Len(e.data))
               [] OTHER -> NothingOwedAtWrites(Tail(log), owed)

C14_NoPipelining ==
    last.op # "init" =>
        /\ NothingOwedAtWrites(last.log, Len(last.stale))
        /\ \A i \in 1..Len(last.log) :
               (last.log[i].ev = "write" /\ Answer(last.log[i].data) > 0) =>
                   /\ i < Len(last.log)
                   /\ last.log[i + 1].ev = "sleep"

(***************************************************************************)
(* C15: write_reg(reg_addr, data) with lists of different lengths is       *)
(* rejected and writes no frame; with lists of the same length n it writes *)
(* one frame, 'W' a1 d1 ... an dn 'P', each address followed by its value. *)
(***************************************************************************)
C15_WriteRegPairs ==
    Done("write_reg") =>
        LET a == last.args[1]
            d == last.args[2]
            w == Writes(last.log)
        IN  IF Len(a) # Len(d)
            THEN last.exc # "none" /\ w = <<>>
            ELSE /\ last.exc = "none"
                 /\ Len(w) = 1
                 /\ Len(w[1].data) = 2 * Len(a) + 2
                 /\ w[1].data[1] = W_CHAR
                 /\ w[1].data[Len(w[1].data)] = P_CHAR
                 /\ \A i \in 1..Len(a) :
                        w[1].data[2 * i] = a[i] /\ w[1].data[2 * i + 1] = d[i]

\* the part of C15 about lists of the same length
C15_EqualLengths ==
    (Done("write_reg") /\ Len(last.args[1]) = Len(last.args[2])) =>
        C15_WriteRegPairs

(***************************************************************************)
(* C20: set_i2c_master_addr(v), v in 0..0x7F, writes the one frame         *)
(* 'W' I2CADR b 'P' with b = 2v, the address shifted left with bit 0       *)
(* clear, which leaves b in register I2CADR.  get_i2c_master_addr returns  *)
(* (r >> 1) & 0x7F for the byte r its read returned, a value in 0..0x7F    *)
(* that is the same for r with bit 0 set and clear.  On a link with no     *)
(* unread bytes in the input buffer r is the content of I2CADR, so that a  *)
(* get following set(v) returns v.                                         *)
(***************************************************************************)
C20_MasterAddrRoundTrip ==
    /\ (Done("set_i2c_master_addr") /\ last.args[1] \in 0..127) =>
           LET v == last.args[1]
           IN  /\ last.exc = "none"
               /\ last.log = <<WriteEv(<<W_CHAR, I2CADR, 2 * v, P_CHAR>>)>>
               /\ reg[I2CADR] = 2 * v
               /\ reg[I2CADR] % 2 = 0
               /\ \A a \in Registers \ {I2CADR} : reg[a] = pre[a]
    /\ (Done("get_i2c_master_addr") /\ last.exc = "none") =>
           LET r == LastRead(last.log)[1]
           IN  /\ last.val = (r \div 2) % 128
               /\ last.val \in 0..127
               /\ last.val = ((r - (r % 2)) \div 2) % 128
               /\ last.stale = <<>> => r = pre[I2CADR]
               /\ reg = pre
    /\ (/\ Done("get_i2c_master_addr")
        /\ last.exc = "none"
        /\ last.stale = <<>>
        /\ prev.op = "set_i2c_master_addr"
        /\ prev.exc = "none") =>
           last.val = prev.args[1]

\* the address 0x7F written and read back
C20_Witness ==
    /\ Done("get_i2c_master_addr")
    /\ prev.op = "set_i2c_master_addr"
    /\ prev.args = <<127>>
    /\ pre[I2CADR] = 254
    /\ last.exc = "none"
    /\ last.val = 127

(***************************************************************************)
(* The baud rate generator: the divisor in BRG0/BRG1 (low byte in BRG0),   *)
(* the rate the bridge runs at with it, as the property baudrate reports   *)
(* it, and the divisor nearest to a rate.                                  *)
(***************************************************************************)
Brg(r) == r[BRG0] + 256 * r[BRG1]

BridgeRate(r) == 7372800 \div (16 + Brg(r))

\* round(7372800 / baud) - 16 for baud > 0, halves rounded up
NearestDivisor(baud) == (2 * 7372800 + baud) \div (2 * baud) - 16

DivisorFrame(brg) ==
    <<W_CHAR, BRG0, brg % 256, BRG1, brg \div 256, P_CHAR>>

(***************************************************************************)
(* C16: for every baud rate whose divisor round(7372800 / baud) - 16,      *)
(* rounded to nearest, is in 0..65535, change_baudrate(baud) writes that   *)
(* divisor to BRG0 (low byte) and BRG1 (high byte); baudrate returns       *)
(* 7372800 / (16 + divisor), as an integer, for the divisor it read from   *)
(* BRG0/BRG1.                                                              *)
(***************************************************************************)
C16_NearestDivisor ==
    /\ (/\ Done("change_baudrate")
        /\ last.args[1] > 0
        /\ NearestDivisor(last.args[1]) \in 0..65535) =>
           /\ last.exc = "none"
           /\ Writes(last.log) =
                  <<WriteEv(DivisorFrame(NearestDivisor(last.args[1])))>>
           /\ Brg(reg) = NearestDivisor(last.args[1])
    /\ (Done("baudrate") /\ last.exc = "none") =>
           LET d == LastRead(last.log)
           IN  last.val = 7372800 \div (16 + d[1] + 256 * d[2])

(***************************************************************************)
(* C17: after every sequence of change_baudrate calls, failed ones among   *)
(* them, the rate of the local port is the rate the bridge derives from    *)
(* the divisor in BRG0/BRG1.                                               *)
(***************************************************************************)
C17_BaudInSync == serial_baudrate = BridgeRate(reg)

(***************************************************************************)
(* C18: a change_baudrate(v) that returns has done three things, in this   *)
(* order: written the frame that sets the divisor in BRG0/BRG1 (at the     *)
(* rate the port had), slept 1 s, set the rate of the local port to v.  A  *)
(* change_baudrate that fails (ZeroDivisionError for v = 0, OverflowError  *)
(* for a divisor outside 0..65535) has written nothing and leaves the      *)
(* rate of the local port as it was.                                       *)
(***************************************************************************)
C18_ChangeOrder ==
    Done("change_baudrate") =>
        IF last.exc = "none"
        THEN /\ Len(last.log) = 3
             /\ last.log[1] = WriteEv(DivisorFrame(Brg(reg)))
             /\ last.log[2] = SleepEv(1000)
             /\ last.log[3] = [ev |-> "baudrate", value |-> last.args[1]]
             /\ serial_baudrate = last.args[1]
        ELSE /\ last.log = <<>>
             /\ serial_baudrate = last.baud
             /\ reg = pre

\* from 9600 to 115200 baud: divisor 48
C18_Witness ==
    /\ Done("change_baudrate")
    /\ last.args = <<115200>>
    /\ last.baud = 9600
    /\ last.exc = "none"
    /\ Brg(reg) = 48
    /\ serial_baudrate = 115200

(***************************************************************************)
(* C19: every write of a call hands the port one whole frame: an opcode    *)
(* S, R, W, I or O first, 'P' last, and in an S frame a length byte equal  *)
(* to the number of data bytes after it.  With arguments in range,         *)
(* read_i2c(addr, size) writes 'S' (addr<<1)|1 size 'P', sleeps 10 ms and  *)
(* makes one read of size bytes; write_i2c(addr, data) writes              *)
(* 'S' (addr<<1)&0xFE len(data) data 'P' and reads nothing;                *)
(* read_reg(addrs) writes 'R' addrs 'P', sleeps 10 ms and makes one read   *)
(* of len(addrs) bytes, which are the registers in the order asked for;    *)
(* read_gpio writes 'I' 'P', sleeps 10 ms and makes one read of 1 byte;    *)
(* write_gpio(b) writes 'O' b 'P' and reads nothing.                       *)
(***************************************************************************)
ReadEv(size, data) == [ev |-> "read", size |-> size, data |-> data]

WholeFrame(f) ==
    /\ Len(f) >= 2
    /\ f[1] \in {S_CHAR, R_CHAR, W_CHAR, I_CHAR, O_CHAR}
    /\ f[Len(f)] = P_CHAR
    /\ f[1] = S_CHAR =>
           /\ Len(f) >= 4
           /\ f[3] = IF f[2] % 2 = 1 THEN last.args[2] ELSE Len(f) - 4
           /\ f[2] % 2 = 1 => Len(f) = 4
    /\ f[1] = I_CHAR => Len(f) = 2
    /\ f[1] = O_CHAR => Len(f) = 3
    /\ f[1] = W_CHAR => Len(f) % 2 = 0

C19_WholeFrames ==
    (last.exc \notin {"pending", "ValueError"} /\ last.op # "init") =>
        LET a == last.args
            log == last.log
            got == LastRead(log)
        IN  /\ \A i \in 1..Len(Writes(log)) : WholeFrame(Writes(log)[i].data)
            /\ last.op = "read_i2c" =>
                   /\ log = <<WriteEv(<<S_CHAR, 2 * a[1] + 1, a[2], P_CHAR>>),
                              SleepEv(10), ReadEv(a[2], got)>>
                   /\ last.exc = "none" => last.val = got /\ Len(got) = a[2]
            /\ last.op = "write_i2c" =>
                   log = <<WriteEv(<<S_CHAR, 2 * a[1], Len(a[2])>> \o a[2]
                                   \o <<P_CHAR>>)>>
            /\ last.op = "read_reg" =>
                   /\ log = <<WriteEv(<<R_CHAR>> \o a[1] \o <<P_CHAR>>),
                              SleepEv(10), ReadEv(Len(a[1]), got)>>
                   /\ last.exc = "none" =>
                          last.val = [i \in 1..Len(a[1]) |-> pre[a[1][i]]]
            /\ last.op = "read_gpio" =>
                   /\ log = <<WriteEv(<<I_CHAR, P_CHAR>>), SleepEv(10),
                              ReadEv(1, got)>>
                   /\ last.exc = "none" => last.val = got /\ Len(got) = 1
            /\ last.op = "write_gpio" =>
                   log = <<WriteEv(<<O_CHAR, a[1][1], P_CHAR>>)>>

\* two data bytes written to the sensor's address
C19_Witness ==
    /\ Done("write_i2c")
    /\ last.args = <<SHT30_I2C_ADDR, <<170, 170>>>>
    /\ last.log = <<WriteEv(<<83, 136, 2, 170, 170, 80>>)>>

=============================================================================
